---- MODULE Spec2Model ----
(***************************************************************************)
(* Model of the order matching engine: the order book (two heapq arrays of *)
(* (key, order) tuples), the five order classes' execute methods and       *)
(* OrderBook.cancel_order.                                                 *)
(*                                                                         *)
(* Order objects are references: the book holds the order's uid and the    *)
(* variable orders holds each object's fields, so that a quantity changed  *)
(* in place is seen through every entry that refers to the object.         *)
(***************************************************************************)
EXTENDS Integers, Sequences, FiniteSets, TLC

\* Bounds of the model.
MaxOrders == 3
MaxQty == 4
MaxPrice == 2
\* orders constructed by the engine before the exploration of its commands stops
MaxEngineOrders == 2

\* price of an order submitted without one (Market): None in the source.
NoPrice == 0

MANDATED_FOKOnly == {"FOK"}

MANDATED_FULL_EXECUTION_ORDERS == {"LO", "FOK"}

Kinds == {"LO", "MO", "IOC", "FOK", "GTC"}
Sides == {"B", "S"}
Quantities == 1..MaxQty
Prices == 1..MaxPrice

VARIABLES
    buy,      \* OrderBook.buy: heap array of <<-price, uid>>
    sell,     \* OrderBook.sell: heap array of <<price, uid>>
    orders,   \* the Order objects created so far, by uid (uid = index)
    last,     \* the last command: its arguments, what it returned, the book before it
    acct,     \* running totals of submitted / filled / discarded / cancelled units
    engine    \* MatchingEngine.__instance, the objects created, the last call on the class

vars == <<buy, sell, orders, last, acct, engine>>

Min(a, b) == IF a < b THEN a ELSE b

RECURSIVE Reverse(_)
Reverse(s) == IF s = <<>> THEN <<>> ELSE Append(Reverse(Tail(s)), Head(s))

----------------------------------------------------------------------------
(* Order.__lt__ and the comparison of the heap's (key, order) tuples *)

Order_lt(self, other) == self.price < other.price

\* tuple comparison: the keys decide; on equal keys two different orders are
\* compared with Order.__lt__, the same order twice is equal.
ItemLt(a, b, ord) ==
    \/ a[1] < b[1]
    \/ /\ a[1] = b[1]
       /\ a[2] # b[2]
       /\ Order_lt(ord[a[2]], ord[b[2]])

----------------------------------------------------------------------------
(* heapq: positions are 0-based as in Python, heap[pos + 1] is the element *)

RECURSIVE siftdown(_, _, _, _, _)
siftdown(heap, startpos, pos, newitem, ord) ==
    IF pos > startpos
    THEN LET parentpos == (pos - 1) \div 2
             parent == heap[parentpos + 1]
         IN  IF ItemLt(newitem, parent, ord)
             THEN siftdown([heap EXCEPT ![pos + 1] = parent], startpos, parentpos, newitem, ord)
             ELSE [heap EXCEPT ![pos + 1] = newitem]
    ELSE [heap EXCEPT ![pos + 1] = newitem]

RECURSIVE siftup_loop(_, _, _, _, _)
siftup_loop(heap, startpos, pos, newitem, ord) ==
    LET endpos == Len(heap)
        childpos == 2 * pos + 1
        rightpos == childpos + 1
        smaller == IF rightpos < endpos /\ ~ItemLt(heap[childpos + 1], heap[rightpos + 1], ord)
                   THEN rightpos ELSE childpos
    IN  IF childpos < endpos
        THEN siftup_loop([heap EXCEPT ![pos + 1] = heap[smaller + 1]], startpos, smaller, newitem, ord)
        ELSE siftdown(heap, startpos, pos, newitem, ord)

siftup(heap, pos, ord) == siftup_loop(heap, pos, pos, heap[pos + 1], ord)

heappush_NoSift(heap, item, ord) == Append(heap, item)

heappush(heap, item, ord) ==
    LET appended == Append(heap, item)
    IN  siftdown(appended, 0, Len(appended) - 1, item, ord)

\* heappop: the item it returns, and the heap it leaves
heappop_item(heap) ==
    LET lastelt == heap[Len(heap)]
        rest == SubSeq(heap, 1, Len(heap) - 1)
    IN  IF rest # <<>> THEN heap[1] ELSE lastelt

heappop_heap(heap, ord) ==
    LET lastelt == heap[Len(heap)]
        rest == SubSeq(heap, 1, Len(heap) - 1)
    IN  IF rest # <<>> THEN siftup([rest EXCEPT ![1] = lastelt], 0, ord) ELSE rest

----------------------------------------------------------------------------
(* OrderBook: b is any record with fields buy, sell and orders *)

push_to_buy_queue(b, order) ==
    [b EXCEPT !.buy = heappush(b.buy, <<-(b.orders[order].price), order>>, b.orders)]

push_to_sell_queue(b, order) ==
    [b EXCEPT !.sell = heappush(b.sell, <<b.orders[order].price, order>>, b.orders)]

pop_buy_order(b) == heappop_item(b.buy)[2]
pop_buy(b) == [b EXCEPT !.buy = heappop_heap(b.buy, b.orders)]

pop_sell_order(b) == heappop_item(b.sell)[2]
pop_sell(b) == [b EXCEPT !.sell = heappop_heap(b.sell, b.orders)]

\* cancel_order iterates over the heap arrays, whose elements are the
\* (key, order) tuples: reading .uid of the first element raises
\* AttributeError before anything is changed. Only with both arrays empty
\* do the loops not run and the method returns None.
\* what the bare "return" after a removal hands back: None
CancelFoundReturn == "None"

\* outcomes that are exceptions: nothing catches them, the process ends
Exceptions == {"KeyError", "TypeError", "AttributeError"}

cancel_order_SwapOnly(b, order_id) ==
    LET hit(h) == {i \in DOMAIN h : h[i][2] = order_id}
        first(h) == CHOOSE i \in hit(h) : \A j \in hit(h) : i <= j
        cut(h) == SubSeq([h EXCEPT ![first(h)] = h[Len(h)]], 1, Len(h) - 1)
    IN  IF hit(b.sell) # {} THEN [book |-> [b EXCEPT !.sell = cut(@)], outcome |-> "None"]
        ELSE IF hit(b.buy) # {} THEN [book |-> [b EXCEPT !.buy = cut(@)], outcome |-> "None"]
        ELSE [book |-> b, outcome |-> "None"]

cancel_order(b, order_id) ==
    IF b.sell # <<>> THEN [book |-> b, outcome |-> "AttributeError"]
    ELSE IF b.buy # <<>> THEN [book |-> b, outcome |-> "AttributeError"]
    ELSE [book |-> b, outcome |-> "None"]

----------------------------------------------------------------------------
(* The parts the ten _execute_buy_order / _execute_sell_order methods share. *)
(* st is the book (buy, sell, orders) together with the method's locals:    *)
(*   total_sale, quantity (buy_quantity / sell_quantity), history           *)
(*   (sell_orders / buy_orders), full_execution_orders,                     *)
(* and trades, the record of every transfer added to total_sale (with the   *)
(* popped order's quantity, the quantity wanted before and left after the   *)
(* step), gated, the order at which the price test ended the loop, and     *)
(* steps, what the loop saw each time it tested its condition.              *)

NewCall(b, self) ==
    [buy |-> b.buy, sell |-> b.sell, orders |-> b.orders,
     total_sale |-> 0,
     quantity |-> b.orders[self].quantity,
     history |-> <<>>,
     full_execution_orders |-> <<>>,
     trades |-> <<>>,
     gated |-> <<>>,
     steps |-> <<>>]

\* a buy order works on the sell queue, a sell order on the buy queue
OwnQ(b, side) == IF side = "B" THEN b.buy ELSE b.sell
OppQ(b, side) == IF side = "B" THEN b.sell ELSE b.buy

\* observation of the loop: at every evaluation of the while condition, and
\* at a break, the size of the opposing queue and the quantity still wanted
Tick(st, side) ==
    [st EXCEPT !.steps = Append(@, [opp |-> Len(OppQ(st, side)), quantity |-> st.quantity])]
OppNonEmpty(st, side) == IF side = "B" THEN st.sell # <<>> ELSE st.buy # <<>>
PopOppOrder(st, side) == IF side = "B" THEN pop_sell_order(st) ELSE pop_buy_order(st)
PopOpp(st, side) == IF side = "B" THEN pop_sell(st) ELSE pop_buy(st)

PushOpp_Skip(st, side, order) == st

PushOpp(st, side, order) ==
    IF side = "B" THEN push_to_sell_queue(st, order) ELSE push_to_buy_queue(st, order)
PushOwn_OverFront(st, side, order) ==
    LET room == IF OwnQ(st, side) = <<>> THEN st
                ELSE IF side = "B" THEN pop_buy(st) ELSE pop_sell(st)
    IN  IF side = "B" THEN push_to_buy_queue(room, order) ELSE push_to_sell_queue(room, order)

PushOwn(st, side, order) ==
    IF side = "B" THEN push_to_buy_queue(st, order) ELSE push_to_sell_queue(st, order)

PriceGate_Never(curr, self) == FALSE

\* curr_sell_order.price > self.price  /  curr_buy_order.price < self.price
PriceGate(curr, self) ==
    IF self.side = "B" THEN curr.price > self.price ELSE curr.price < self.price

MustSetAside_Never(curr, quantity) == FALSE

\* curr.type in MANDATED_FULL_EXECUTION_ORDERS and curr.quantity > quantity
MustSetAside(curr, quantity) ==
    /\ curr.type \in MANDATED_FULL_EXECUTION_ORDERS
    /\ curr.quantity > quantity

\* The fill of one popped order: the residue branch reduces the popped order
\* in place and pushes it back; the quantity left is then reduced by
\* min(quantity, curr.quantity), read AFTER the in-place reduction.
Consume(st, curr, side) ==
    LET c == st.orders[curr]
        residue == c.quantity > st.quantity
        units == IF residue THEN st.quantity ELSE c.quantity
        s1 == IF residue
              THEN PushOpp([st EXCEPT !.orders[curr].quantity = @ - st.quantity], side, curr)
              ELSE st
    IN  [s1 EXCEPT !.total_sale = @ + units * c.price,
                   !.trades = Append(@, [uid |-> curr, units |-> units, price |-> c.price,
                                         had |-> c.quantity, wanted |-> st.quantity,
                                         left |-> st.quantity
                                                  - Min(st.quantity, s1.orders[curr].quantity)]),
                   !.quantity = @ - Min(@, s1.orders[curr].quantity)]

\* for order in seq: push order to the opposing queue
RECURSIVE PushAllOpp(_, _, _)
PushAllOpp(st, seq, side) ==
    IF seq = <<>> THEN st
    ELSE PushAllOpp(PushOpp(st, side, Head(seq)), Tail(seq), side)

RestoreFullExecution_Dropped(st, side) == st

\* "restore mandated full execution orders"
RestoreFullExecution(st, side) == PushAllOpp(st, st.full_execution_orders, side)

----------------------------------------------------------------------------
(* LimitOrder: the loop of _execute_buy_order / _execute_sell_order, then   *)
(* the restore of the history and the push of the order when quantity > 0.  *)

RECURSIVE LimitOrder_loop(_, _)
LimitOrder_loop(st, self) ==
    LET side == st.orders[self].side
        curr == PopOppOrder(st, side)
        next == PopOpp(Tick(st, side), side)
    IN  IF ~(OppNonEmpty(st, side) /\ st.quantity > 0) THEN Tick(st, side)
        ELSE IF PriceGate(next.orders[curr], next.orders[self])
            THEN Tick([next EXCEPT !.history = Append(@, curr), !.gated = <<curr>>], side)
            ELSE IF MustSetAside(next.orders[curr], next.quantity)
            THEN LimitOrder_loop([next EXCEPT !.full_execution_orders = Append(@, curr)], self)
            ELSE LimitOrder_loop([Consume(next, curr, side) EXCEPT !.history = Append(@, curr)], self)

LimitOrder_execute(b, self) ==
    LET side == b.orders[self].side
        st == LimitOrder_loop(NewCall(b, self), self)
        restored == IF st.quantity > 0
                    THEN [PushOwn(PushAllOpp(st, Reverse(st.history), side), side, self)
                            EXCEPT !.total_sale = 0]
                    ELSE st
    IN  RestoreFullExecution(restored, side)

----------------------------------------------------------------------------
(* MarketOrder: no price test, nothing restored, nothing pushed *)

RECURSIVE MarketOrder_loop(_, _)
MarketOrder_loop(st, self) ==
    LET side == st.orders[self].side
        curr == PopOppOrder(st, side)
        next == PopOpp(Tick(st, side), side)
    IN  IF ~(OppNonEmpty(st, side) /\ st.quantity > 0) THEN Tick(st, side)
        ELSE IF MustSetAside(next.orders[curr], next.quantity)
            THEN MarketOrder_loop([next EXCEPT !.full_execution_orders = Append(@, curr)], self)
            ELSE MarketOrder_loop(Consume(next, curr, side), self)

MarketOrder_execute_Rests(b, self) ==
    LET side == b.orders[self].side
        st == MarketOrder_loop(NewCall(b, self), self)
        rested == IF st.quantity > 0 THEN PushOwn(st, side, self) ELSE st
    IN  RestoreFullExecution(rested, side)

MarketOrder_execute(b, self) ==
    LET side == b.orders[self].side
        st == MarketOrder_loop(NewCall(b, self), self)
    IN  RestoreFullExecution(st, side)

----------------------------------------------------------------------------
(* IOCOrder: the order that fails the price test is pushed back at once *)

RECURSIVE IOCOrder_loop(_, _)
IOCOrder_loop(st, self) ==
    LET side == st.orders[self].side
        curr == PopOppOrder(st, side)
        next == PopOpp(Tick(st, side), side)
    IN  IF ~(OppNonEmpty(st, side) /\ st.quantity > 0) THEN Tick(st, side)
        ELSE IF PriceGate(next.orders[curr], next.orders[self])
            THEN Tick([PushOpp(next, side, curr) EXCEPT !.gated = <<curr>>], side)
            ELSE IF MustSetAside(next.orders[curr], next.quantity)
            THEN IOCOrder_loop([next EXCEPT !.full_execution_orders = Append(@, curr)], self)
            ELSE IOCOrder_loop(Consume(next, curr, side), self)

IOCOrder_execute_Rests(b, self) ==
    LET side == b.orders[self].side
        st == IOCOrder_loop(NewCall(b, self), self)
        rested == IF st.quantity > 0 THEN PushOwn(st, side, self) ELSE st
    IN  RestoreFullExecution(rested, side)

IOCOrder_execute(b, self) ==
    LET side == b.orders[self].side
        st == IOCOrder_loop(NewCall(b, self), self)
    IN  RestoreFullExecution(st, side)

----------------------------------------------------------------------------
(* FOKOrder: as LimitOrder, but the order itself is never pushed *)

RECURSIVE FOKOrder_loop(_, _)
FOKOrder_loop(st, self) ==
    LET side == st.orders[self].side
        curr == PopOppOrder(st, side)
        next == PopOpp(Tick(st, side), side)
    IN  IF ~(OppNonEmpty(st, side) /\ st.quantity > 0) THEN Tick(st, side)
        ELSE IF PriceGate(next.orders[curr], next.orders[self])
            THEN Tick([next EXCEPT !.history = Append(@, curr), !.gated = <<curr>>], side)
            ELSE IF MustSetAside(next.orders[curr], next.quantity)
            THEN FOKOrder_loop([next EXCEPT !.full_execution_orders = Append(@, curr)], self)
            ELSE FOKOrder_loop([Consume(next, curr, side) EXCEPT !.history = Append(@, curr)], self)

FOKOrder_execute(b, self) ==
    LET side == b.orders[self].side
        st == FOKOrder_loop(NewCall(b, self), self)
        restored == IF st.quantity > 0
                    THEN [PushAllOpp(st, Reverse(st.history), side) EXCEPT !.total_sale = 0]
                    ELSE st
    IN  RestoreFullExecution(restored, side)

----------------------------------------------------------------------------
(* GTCOrder: as IOCOrder, then self.quantity = quantity and the order is    *)
(* pushed on its own queue when quantity > 0.                               *)

RECURSIVE GTCOrder_loop(_, _)
GTCOrder_loop(st, self) ==
    LET side == st.orders[self].side
        curr == PopOppOrder(st, side)
        next == PopOpp(Tick(st, side), side)
    IN  IF ~(OppNonEmpty(st, side) /\ st.quantity > 0) THEN Tick(st, side)
        ELSE IF PriceGate(next.orders[curr], next.orders[self])
            THEN Tick([PushOpp(next, side, curr) EXCEPT !.gated = <<curr>>], side)
            ELSE IF MustSetAside(next.orders[curr], next.quantity)
            THEN GTCOrder_loop([next EXCEPT !.full_execution_orders = Append(@, curr)], self)
            ELSE GTCOrder_loop(Consume(next, curr, side), self)

GTCOrder_execute(b, self) ==
    LET side == b.orders[self].side
        st == GTCOrder_loop(NewCall(b, self), self)
        rested == IF st.quantity > 0
                  THEN PushOwn([st EXCEPT !.orders[self].quantity = st.quantity], side, self)
                  ELSE st
    IN  RestoreFullExecution(rested, side)

\* Order.execute of the class of the order
execute(b, self) ==
    CASE b.orders[self].type = "LO"  -> LimitOrder_execute(b, self)
      [] b.orders[self].type = "MO"  -> MarketOrder_execute(b, self)
      [] b.orders[self].type = "IOC" -> IOCOrder_execute(b, self)
      [] b.orders[self].type = "FOK" -> FOKOrder_execute(b, self)
      [] b.orders[self].type = "GTC" -> GTCOrder_execute(b, self)

----------------------------------------------------------------------------
(* Observation helpers *)

\* total quantity of the entries of a heap array
RECURSIVE QueueUnits(_, _)
QueueUnits(heap, ord) ==
    IF heap = <<>> THEN 0 ELSE ord[Head(heap)[2]].quantity + QueueUnits(Tail(heap), ord)

RestingUnits(b) == QueueUnits(b.buy, b.orders) + QueueUnits(b.sell, b.orders)

\* units and notional of a list of trades
RECURSIVE TradeUnits(_)
TradeUnits(trades) ==
    IF trades = <<>> THEN 0 ELSE Head(trades).units + TradeUnits(Tail(trades))

RECURSIVE TradeNotional(_)
TradeNotional(trades) ==
    IF trades = <<>> THEN 0
    ELSE Head(trades).units * Head(trades).price + TradeNotional(Tail(trades))

\* the method took its restore branch: a Limit or FillOrKill order left with quantity > 0
RolledBack(type, remaining) == type \in {"LO", "FOK"} /\ remaining > 0

\* units of the incoming order that are thrown away
Discarded(type, quantity, remaining) ==
    CASE type \in {"MO", "IOC"} -> remaining
      [] type = "FOK" -> IF remaining > 0 THEN quantity ELSE 0
      [] OTHER -> 0

\* uids that some entry of the book refers to
Referenced(b) ==
    {b.buy[i][2] : i \in DOMAIN b.buy} \cup {b.sell[i][2] : i \in DOMAIN b.sell}

\* An order object that nothing refers to any more is freed by the runtime:
\* its fields are no longer part of the program's state.
Freed(uid) ==
    [action |-> "SUB", uid |-> uid, type |-> "FREED", side |-> "NONE",
     quantity |-> 0, price |-> NoPrice]

Collect(b) ==
    [i \in DOMAIN b.orders |-> IF i \in Referenced(b) THEN b.orders[i] ELSE Freed(i)]

NoCommand ==
    [cmd |-> "NONE", uid |-> 0, type |-> "NONE", side |-> "NONE", quantity |-> 0,
     price |-> NoPrice, result |-> 0, remaining |-> 0, trades |-> <<>>,
     full_execution_orders |-> <<>>, history |-> <<>>, gated |-> <<>>,
     steps |-> <<>>, outcome |-> "NONE",
     pre |-> [buy |-> <<>>, sell |-> <<>>, orders |-> <<>>]]

----------------------------------------------------------------------------
(* MatchingEngine as a singleton. Engines are numbered in the order of      *)
(* their construction; created and books count the engines whose __init__   *)
(* ran to its end and the OrderBook objects made. fresh tells that a new,   *)
(* empty book became the book of the stored instance.                       *)

\* __instance = None
NoInstance == 0

\* the class after import, before any call
ClassLoaded == [instance |-> NoInstance, created |-> 0, books |-> 0]

MatchingEngine_init_Unguarded(e) ==
    [engine |-> [instance |-> e.created + 1, created |-> e.created + 1,
                 books |-> e.books + 1],
     raised |-> "None", fresh |-> TRUE]

\* MatchingEngine.__init__
MatchingEngine_init(e) ==
    IF e.instance # NoInstance
    THEN [engine |-> e, raised |-> "SingletonConstructorCallError", fresh |-> FALSE]
    ELSE [engine |-> [instance |-> e.created + 1, created |-> e.created + 1,
                      books |-> e.books + 1],
          raised |-> "None", fresh |-> TRUE]

\* MatchingEngine.get_instance
get_instance(e) ==
    LET r == IF e.instance = NoInstance THEN MatchingEngine_init(e)
             ELSE [engine |-> e, raised |-> "None", fresh |-> FALSE]
    IN  [engine |-> r.engine, raised |-> r.raised, fresh |-> r.fresh,
         returned |-> r.engine.instance]

\* the class part of the variable engine
Class == [instance |-> engine.instance, created |-> engine.created, books |-> engine.books]

\* the variable engine after a call on the class
AfterCall(op, r, returned) ==
    [instance |-> r.engine.instance, created |-> r.engine.created, books |-> r.engine.books,
     op |-> op, returned |-> returned, raised |-> r.raised,
     pre |-> [instance |-> engine.instance, buy |-> buy, sell |-> sell]]

\* no call on the class yet
BeforeCalls ==
    [instance |-> NoInstance, created |-> 0, books |-> 0,
     op |-> "NONE", returned |-> NoInstance, raised |-> "None",
     pre |-> [instance |-> NoInstance, buy |-> <<>>, sell |-> <<>>]]

\* app.py line 43: matching_engine = MatchingEngine.get_instance()
Started ==
    [BeforeCalls EXCEPT !.instance = get_instance(ClassLoaded).engine.instance,
                        !.created = get_instance(ClassLoaded).engine.created,
                        !.books = get_instance(ClassLoaded).engine.books,
                        !.op = "get_instance",
                        !.returned = get_instance(ClassLoaded).returned]

----------------------------------------------------------------------------
(* The state machine *)

Init ==
    /\ buy = <<>>
    /\ sell = <<>>
    /\ orders = <<>>
    /\ last = NoCommand
    /\ acct = [submitted |-> 0, filled |-> 0, discarded |-> 0, cancelled |-> 0]
    /\ engine = Started

\* A SUB command: the order object is constructed (Order.__init__) and its
\* execute method runs against the book to completion.
Submit(type, side, quantity, price) ==
    /\ Len(orders) < MaxOrders
    /\ LET uid == Len(orders) + 1
           order == [action |-> "SUB", uid |-> uid, type |-> type, side |-> side,
                     quantity |-> quantity, price |-> price]
           b == [buy |-> buy, sell |-> sell, orders |-> Append(orders, order)]
       IN  \E st \in {execute(b, uid)} :   \* one call, its result used below
           /\ buy' = st.buy
           /\ sell' = st.sell
           /\ orders' = Collect(st)
           /\ last' = [cmd |-> "SUB", uid |-> uid, type |-> type, side |-> side,
                       quantity |-> quantity, price |-> price,
                       result |-> st.total_sale, remaining |-> st.quantity,
                       trades |-> st.trades,
                       full_execution_orders |-> st.full_execution_orders,
                       history |-> st.history, gated |-> st.gated,
                       steps |-> st.steps,
                       outcome |-> "returned",
                       pre |-> [buy |-> buy, sell |-> sell, orders |-> orders]]
           /\ acct' = [acct EXCEPT
                         !.submitted = @ + quantity,
                         !.filled = @ + (IF RolledBack(type, st.quantity) THEN 0
                                         ELSE 2 * TradeUnits(st.trades)),
                         !.discarded = @ + Discarded(type, quantity, st.quantity)]
           /\ UNCHANGED engine

SubmitLimit == \E side \in Sides, q \in Quantities, p \in Prices : Submit("LO", side, q, p)
SubmitMarket == \E side \in Sides, q \in Quantities : Submit("MO", side, q, NoPrice)
SubmitIOC == \E side \in Sides, q \in Quantities, p \in Prices : Submit("IOC", side, q, p)
SubmitFOK == \E side \in Sides, q \in Quantities, p \in Prices : Submit("FOK", side, q, p)
SubmitGTC == \E side \in Sides, q \in Quantities, p \in Prices : Submit("GTC", side, q, p)

\* A CXL command: OrderBook.cancel_order(order_id)
Cancel ==
    \E order_id \in 1..MaxOrders :
        LET b == [buy |-> buy, sell |-> sell, orders |-> orders]
        IN  \E res \in {cancel_order(b, order_id)} :
            /\ buy' = res.book.buy
            /\ sell' = res.book.sell
            /\ orders' = Collect(res.book)
            /\ last' = [NoCommand EXCEPT !.cmd = "CXL", !.uid = order_id,
                                         !.outcome = res.outcome, !.pre = b]
            /\ acct' = [acct EXCEPT !.cancelled = @ + RestingUnits(b) - RestingUnits(res.book)]
            /\ UNCHANGED engine

Next ==
    \/ SubmitLimit
    \/ SubmitMarket
    \/ SubmitIOC
    \/ SubmitFOK
    \/ SubmitGTC
    \/ Cancel

Spec == Init /\ [][Next]_vars

\* OrderBook.__str__: each queue is printed in the order of its list, the
\* orders (item[1]) one after the other
DumpBuy(b) == [i \in DOMAIN b.buy |-> b.orders[b.buy[i][2]]]
DumpSell(b) == [i \in DOMAIN b.sell |-> b.orders[b.sell[i][2]]]

----------------------------------------------------------------------------
(* The engine: app.parse_order produces order_dict, MatchingEngine          *)
(* .process_order hands it to OrderFactory.create_order and then runs       *)
(* order.execute (SUB) or order_book.cancel_order (CXL). No exception is    *)
(* caught anywhere: an exception ends the process.                          *)

\* keys of OrderFactory.submit_orders
submit_orders == {"LO"}

\* order_dict["type"] of a CXL line: the defaultdict's None
NoType == "None"

\* the locals of a call that never started matching
NoCall(b) ==
    [buy |-> b.buy, sell |-> b.sell, orders |-> b.orders,
     total_sale |-> 0, quantity |-> 0, history |-> <<>>,
     full_execution_orders |-> <<>>, trades |-> <<>>, gated |-> <<>>,
     steps |-> <<>>]

\* comparing a price with None (int with None, or None with None through
\* Order.__lt__) raises TypeError
NoneCompared(p, q) == p = NoPrice \/ q = NoPrice

\* LimitOrder.execute of an order whose price may be None (a SUB line
\* without a price), exceptions included:
\*  - the loop is entered: the first order is popped, then the price test
\*    raises when one of the two prices is None;
\*  - the loop is not entered and quantity > 0: the order is pushed; a buy
\*    raises on -order.price; a sell is appended by heappush, whose first
\*    comparison with the parent raises when one of the two keys is None;
\*  - otherwise the call runs as LimitOrder_execute.
LimitOrder_call(b, self) ==
    LET o == b.orders[self]
        own == OwnQ(b, o.side)
        entered == OppNonEmpty(b, o.side) /\ o.quantity > 0
        parent == own[((Len(own) - 1) \div 2) + 1]
    IN  IF entered /\ NoneCompared(b.orders[PopOppOrder(b, o.side)].price, o.price)
        THEN [st |-> NoCall(PopOpp(b, o.side)), outcome |-> "TypeError"]
        ELSE IF ~entered /\ o.quantity > 0 /\ o.side = "B" /\ o.price = NoPrice
        THEN [st |-> NoCall(b), outcome |-> "TypeError"]
        ELSE IF /\ ~entered /\ o.quantity > 0 /\ o.side = "S" /\ own # <<>>
                /\ NoneCompared(o.price, b.orders[parent[2]].price)
        THEN [st |-> NoCall([b EXCEPT !.sell = Append(@, <<o.price, self>>)]),
              outcome |-> "TypeError"]
        ELSE [st |-> LimitOrder_execute(b, self), outcome |-> "returned"]

\* MatchingEngine.process_order(order_dict)
process_order(b, d) ==
    IF d.type \notin submit_orders
    THEN [st |-> NoCall(b), outcome |-> "KeyError"]
    ELSE LET self == Len(b.orders) + 1
             order == [action |-> d.action, uid |-> d.id, type |-> d.type,
                       side |-> d.side, quantity |-> d.quantity, price |-> d.price]
             b1 == [b EXCEPT !.orders = Append(@, order)]
         IN  IF d.action = "SUB" THEN LimitOrder_call(b1, self)
             ELSE IF d.action = "CXL"
             THEN [st |-> NoCall(b), outcome |-> "AttributeError"]   \* order.id: no such attribute
             ELSE [st |-> NoCall(b), outcome |-> "None"]

----------------------------------------------------------------------------
(* The engine's state machine: one input line per step, until an exception  *)
(* ends the process.                                                        *)

Crashed == last.outcome \in Exceptions

Process(d) ==
    /\ ~Crashed
    /\ Len(orders) < MaxEngineOrders
    /\ LET b == [buy |-> buy, sell |-> sell, orders |-> orders]
       IN  \E res \in {process_order(b, d)} :
           /\ buy' = res.st.buy
           /\ sell' = res.st.sell
           /\ orders' = Collect(res.st)
           /\ last' = [cmd |-> d.action, uid |-> d.id, type |-> d.type, side |-> d.side,
                       quantity |-> d.quantity, price |-> d.price,
                       result |-> res.st.total_sale, remaining |-> res.st.quantity,
                       trades |-> res.st.trades,
                       full_execution_orders |-> res.st.full_execution_orders,
                       history |-> res.st.history, gated |-> res.st.gated,
                       steps |-> res.st.steps,
                       outcome |-> res.outcome,
                       pre |-> b]
           /\ engine' = [engine EXCEPT !.op = "process_order"]
           /\ UNCHANGED acct

\* "SUB type side id quantity [price]"
ProcessSubmit ==
    \E type \in Kinds \cup {"XX"}, side \in Sides, id \in 1..MaxEngineOrders,
       quantity \in 0..MaxQty, price \in {NoPrice} \cup Prices :
        Process([action |-> "SUB", type |-> type, side |-> side, id |-> id,
                 quantity |-> quantity, price |-> price])

\* "CXL id": every other key of order_dict is None
ProcessCancel ==
    \E id \in 1..MaxEngineOrders :
        Process([action |-> "CXL", type |-> NoType, side |-> "NONE", id |-> id,
                 quantity |-> 0, price |-> NoPrice])

EngineNext ==
    \/ ProcessSubmit
    \/ ProcessCancel

EngineSpec == Init /\ [][EngineNext]_vars

----------------------------------------------------------------------------
(* The singleton's state machine: calls of MatchingEngine.get_instance()    *)
(* and of the constructor MatchingEngine(), in any order, between the       *)
(* commands that the stored instance processes.                             *)

SingletonInit ==
    /\ buy = <<>>
    /\ sell = <<>>
    /\ orders = <<>>
    /\ last = NoCommand
    /\ acct = [submitted |-> 0, filled |-> 0, discarded |-> 0, cancelled |-> 0]
    /\ engine = BeforeCalls

\* a new engine comes with a new, empty OrderBook
BookAfter(r) ==
    /\ buy' = IF r.fresh THEN <<>> ELSE buy
    /\ sell' = IF r.fresh THEN <<>> ELSE sell
    /\ UNCHANGED <<orders, last, acct>>

CallGetInstance ==
    /\ ~Crashed
    /\ LET r == get_instance(Class)
       IN  /\ engine' = AfterCall("get_instance", r, r.returned)
           /\ BookAfter(r)

CallConstructor ==
    /\ ~Crashed
    /\ LET r == MatchingEngine_init(Class)
       IN  /\ engine' = AfterCall("MatchingEngine", r,
                                  IF r.raised = "None" THEN r.engine.instance ELSE NoInstance)
           /\ BookAfter(r)

\* instance.process_order(...) needs an instance
InstanceSubmit == engine.instance # NoInstance /\ ProcessSubmit
InstanceCancel == engine.instance # NoInstance /\ ProcessCancel

SingletonNext ==
    \/ CallGetInstance
    \/ CallConstructor
    \/ InstanceSubmit
    \/ InstanceCancel

SingletonSpec == SingletonInit /\ [][SingletonNext]_vars

----------------------------------------------------------------------------
(* Vocabulary of the properties *)

Now == [buy |-> buy, sell |-> sell, orders |-> orders]
Pre == last.pre

UidsIn(heap) == {heap[i][2] : i \in DOMAIN heap}
Count(heap, uid) == Cardinality({i \in DOMAIN heap : heap[i][2] = uid})

\* two queues hold the same resting orders: the same uids, each as often,
\* with the same fields
SameResting(h1, o1, h2, o2) ==
    \A uid \in UidsIn(h1) \cup UidsIn(h2) :
        /\ Count(h1, uid) = Count(h2, uid)
        /\ o1[uid] = o2[uid]

\* units a list of trades took from one order
RECURSIVE UnitsFrom(_, _)
UnitsFrom(trades, uid) ==
    IF trades = <<>> THEN 0
    ELSE (IF Head(trades).uid = uid THEN Head(trades).units ELSE 0)
         + UnitsFrom(Tail(trades), uid)

\* value of the entries of a queue: sum of quantity x price
RECURSIVE QueueValue(_, _)
QueueValue(heap, ord) ==
    IF heap = <<>> THEN 0
    ELSE ord[Head(heap)[2]].quantity * ord[Head(heap)[2]].price
         + QueueValue(Tail(heap), ord)

IsSubmit == last.cmd = "SUB"
\* the incoming order as it was constructed
Incoming ==
    [action |-> "SUB", uid |-> last.uid, type |-> last.type, side |-> last.side,
     quantity |-> last.quantity, price |-> last.price]
\* units that left the opposing queue during the last Submit
TakenFromOpp ==
    QueueUnits(OppQ(Pre, last.side), Pre.orders) - QueueUnits(OppQ(Now, last.side), orders)

----------------------------------------------------------------------------
(* C1: a FillOrKill order that FOKOrder.execute does not fill completely    *)
(* (it ends with quantity > 0) leaves both queues with the same resting     *)
(* orders as before the call, is not in the book itself, returns 0, and     *)
(* executing it again changes nothing and returns 0 again.                  *)
C1_FOKFailureLeavesBook ==
    (IsSubmit /\ last.type = "FOK" /\ last.remaining > 0) =>
        /\ SameResting(buy, orders, Pre.buy, Pre.orders)
        /\ SameResting(sell, orders, Pre.sell, Pre.orders)
        /\ last.uid \notin Referenced(Now)
        /\ last.result = 0
        /\ LET again == FOKOrder_execute([Now EXCEPT !.orders[last.uid] = Incoming], last.uid)
           IN  /\ again.total_sale = 0
               /\ SameResting(again.buy, again.orders, buy, orders)
               /\ SameResting(again.sell, again.orders, sell, orders)

(* C2: a Limit order that LimitOrder.execute does not fill completely       *)
(* leaves the opposing queue with the same resting orders as before, its    *)
(* own queue with the previous orders plus itself at its original quantity, *)
(* and returns 0.                                                           *)
C2_LimitFailureRestsOrder ==
    (IsSubmit /\ last.type = "LO" /\ last.remaining > 0) =>
        /\ SameResting(OppQ(Now, last.side), orders, OppQ(Pre, last.side), Pre.orders)
        /\ \A uid \in UidsIn(OwnQ(Now, last.side)) \cup UidsIn(OwnQ(Pre, last.side)) :
              IF uid = last.uid
              THEN Count(OwnQ(Now, last.side), uid) = 1 /\ orders[uid] = Incoming
              ELSE /\ Count(OwnQ(Now, last.side), uid) = Count(OwnQ(Pre, last.side), uid)
                   /\ orders[uid] = Pre.orders[uid]
        /\ last.uid \in UidsIn(OwnQ(Now, last.side))
        /\ last.result = 0

(* C3: conservation. The units submitted so far equal the units resting in  *)
(* the book plus the units filled (each traded unit once for the incoming   *)
(* and once for the resting order) plus the units discarded plus the units  *)
(* removed by cancel; and a Submit takes no more units from the opposing    *)
(* queue than it fills for the incoming order.                              *)
C3_Conservation ==
    /\ acct.submitted = RestingUnits(Now) + acct.filled + acct.discarded + acct.cancelled
    /\ IsSubmit =>
          TakenFromOpp <= (IF RolledBack(last.type, last.remaining) THEN 0
                           ELSE last.quantity - last.remaining)

(* C4: a resting Limit (or FillOrKill) order is never partially consumed.    *)
(* Over every command, a mandated-full-execution order that was in the      *)
(* book and still is has the quantity it had; one that left the book was    *)
(* consumed by the Submit in a single trade of its whole quantity (or was   *)
(* the target of a cancel).                                                 *)
C4_MandatedNeverPartial ==
    \A uid \in Referenced(Pre) :
        Pre.orders[uid].type \in MANDATED_FULL_EXECUTION_ORDERS =>
            IF uid \in Referenced(Now)
            THEN orders[uid] = Pre.orders[uid]
            ELSE \/ last.cmd = "CXL" /\ last.uid = uid
                 \/ /\ IsSubmit
                    /\ \E i \in DOMAIN last.trades :
                          /\ last.trades[i].uid = uid
                          /\ last.trades[i].units = Pre.orders[uid].quantity
                          /\ \A j \in DOMAIN last.trades :
                                last.trades[j].uid = uid => j = i

\* a Submit set one resting Limit order aside and consumed another one whole
C4_Witness ==
    /\ IsSubmit
    /\ \E u \in UidsIn(OppQ(Pre, last.side)), v \in UidsIn(OppQ(Pre, last.side)) :
          /\ u # v
          /\ Pre.orders[u].type = "LO" /\ Pre.orders[v].type = "LO"
          /\ \E i \in DOMAIN last.full_execution_orders : last.full_execution_orders[i] = u
          /\ u \in Referenced(Now)
          /\ v \notin Referenced(Now)
          /\ UnitsFrom(last.trades, v) = Pre.orders[v].quantity

(* C5: whatever the kind and the outcome of the incoming order, every order *)
(* that the mandated-full-execution check set aside is in the opposing      *)
(* queue exactly once when execute returns (and not in the other queue),    *)
(* with the uid, price and quantity it had.                                 *)
C5_SetAsideRestored ==
    IsSubmit =>
        \A i \in DOMAIN last.full_execution_orders :
            LET uid == last.full_execution_orders[i]
            IN  /\ Count(OppQ(Now, last.side), uid) = 1
                /\ Count(OwnQ(Now, last.side), uid) = 0
                /\ Count(OppQ(Pre, last.side), uid) = 1
                /\ orders[uid] = Pre.orders[uid]

\* an order was set aside during a FillOrKill that consumed another order and rolled back
C5_Witness ==
    /\ IsSubmit
    /\ last.type = "FOK"
    /\ last.remaining > 0
    /\ last.full_execution_orders # <<>>
    /\ last.trades # <<>>

(* C6: book invariant. Every uid occurs at most once in the two queues     *)
(* together, and every resting order has quantity > 0.                      *)
C6_BookInvariant ==
    /\ \A uid \in Referenced(Now) : Count(buy, uid) + Count(sell, uid) <= 1
    /\ \A uid \in Referenced(Now) : orders[uid].quantity > 0

(* C7: price priority. In every reachable book, pop_buy returns an order    *)
(* whose price is >= the price of every resting buy order, and pop_sell an  *)
(* order whose price is <= the price of every resting sell order.           *)
C7_PricePriority ==
    /\ buy # <<>> =>
          \A i \in DOMAIN buy : orders[pop_buy_order(Now)].price >= orders[buy[i][2]].price
    /\ sell # <<>> =>
          \A i \in DOMAIN sell : orders[pop_sell_order(Now)].price <= orders[sell[i][2]].price

\* a queue of three orders whose best-priced order was pushed last
C7_Witness ==
    \/ /\ Len(buy) = 3
       /\ pop_buy_order(Now) = MaxOrders
       /\ \A i \in 2..3 : orders[buy[i][2]].price < orders[pop_buy_order(Now)].price
    \/ /\ Len(sell) = 3
       /\ pop_sell_order(Now) = MaxOrders
       /\ \A i \in 2..3 : orders[sell[i][2]].price > orders[pop_sell_order(Now)].price

(* C8: the value a Submit returns. When the Submit does not roll back it is *)
(* the sum over its trades of units x price of the resting order, and the   *)
(* units of the trades sum to the incoming quantity minus the unmatched     *)
(* remainder; when it rolls back it is 0.                                   *)
C8_ReturnedNotional ==
    IsSubmit =>
        IF RolledBack(last.type, last.remaining)
        THEN last.result = 0
        ELSE /\ last.result = TradeNotional(last.trades)
             /\ TradeUnits(last.trades) = last.quantity - last.remaining

(* C9: a GoodTillCancel order that is not filled completely rests once on   *)
(* its own queue with its original quantity minus the units it took from   *)
(* the opposing queue, the consumption is kept, and the value returned is   *)
(* the notional of that consumption.                                        *)
C9_GTCRestsRemainder ==
    (IsSubmit /\ last.type = "GTC" /\ last.remaining > 0) =>
        /\ Count(OwnQ(Now, last.side), last.uid) = 1
        /\ Count(OppQ(Now, last.side), last.uid) = 0
        /\ orders[last.uid].quantity = last.quantity - TakenFromOpp
        /\ last.result = TradeNotional(last.trades)
        /\ last.result = QueueValue(OppQ(Pre, last.side), Pre.orders)
                         - QueueValue(OppQ(Now, last.side), orders)

(* C10: a Market or ImmediateOrCancel order that is not filled completely   *)
(* keeps its consumption (every opposing order is still there unchanged, or *)
(* reduced by what was taken from it, or gone after giving all it had), its *)
(* remainder is discarded so that nothing of it rests (its own queue is     *)
(* untouched), and the value returned is the notional of the consumption.   *)
(* A Market order has no price gate: whatever it leaves in the opposing     *)
(* queue was set aside by the mandated-full-execution check.                *)
C10_MarketIOCKeepsConsumption ==
    (IsSubmit /\ last.type \in {"MO", "IOC"} /\ last.remaining > 0) =>
        /\ OwnQ(Now, last.side) = OwnQ(Pre, last.side)
        /\ last.uid \notin Referenced(Now)
        /\ last.result = TradeNotional(last.trades)
        /\ last.result = QueueValue(OppQ(Pre, last.side), Pre.orders)
                         - QueueValue(OppQ(Now, last.side), orders)
        /\ UidsIn(OppQ(Now, last.side)) \subseteq UidsIn(OppQ(Pre, last.side))
        /\ \A uid \in UidsIn(OppQ(Pre, last.side)) :
              LET taken == UnitsFrom(last.trades, uid)
              IN  IF uid \in UidsIn(OppQ(Now, last.side))
                  THEN /\ Count(OppQ(Now, last.side), uid) = Count(OppQ(Pre, last.side), uid)
                       /\ orders[uid].quantity = Pre.orders[uid].quantity - taken
                       /\ orders[uid].price = Pre.orders[uid].price
                  ELSE taken >= Pre.orders[uid].quantity
        /\ last.type = "MO" =>
              \A uid \in UidsIn(OppQ(Now, last.side)) :
                  \E i \in DOMAIN last.full_execution_orders :
                      last.full_execution_orders[i] = uid

\* a Market order consumed resting orders at two different prices and was left unfilled
C10_Witness ==
    /\ IsSubmit
    /\ last.type = "MO"
    /\ last.remaining > 0
    /\ \E i, j \in DOMAIN last.trades : last.trades[i].price # last.trades[j].price

(* C11: a Limit order against a book whose only resting order is a         *)
(* crossing Limit order of greater quantity on the opposing side.           *)
C11_Case ==
    /\ IsSubmit
    /\ last.type = "LO"
    /\ OwnQ(Pre, last.side) = <<>>
    /\ Len(OppQ(Pre, last.side)) = 1
    /\ LET u == OppQ(Pre, last.side)[1][2]
       IN  /\ Pre.orders[u].type = "LO"
           /\ Pre.orders[u].quantity > last.quantity
           /\ ~PriceGate(Pre.orders[u], Incoming)

(* C11 as stated: the incoming Limit order fills against the resting one,   *)
(* which stays in the book reduced by the incoming quantity, and the Submit *)
(* returns incoming quantity x resting price (Limit Sell 5 @ 100 against     *)
(* Limit Buy 10 @ 100 returns 500 and leaves the buy at 5).                 *)
C11_SmallerLimitFillsAgainstResting ==
    C11_Case =>
        LET u == OppQ(Pre, last.side)[1][2]
        IN  /\ last.result = last.quantity * Pre.orders[u].price
            /\ u \in UidsIn(OppQ(Now, last.side))
            /\ orders[u].quantity = Pre.orders[u].quantity - last.quantity

(* C11 amended: a Limit order never trades with a crossing resting Limit    *)
(* order of greater quantity: that order is set aside and keeps its         *)
(* quantity. When it is the only resting order, nothing trades, the         *)
(* incoming order rests on its own side with its whole quantity and the     *)
(* Submit returns 0.                                                        *)
C11_SmallerLimitIsNotFilled ==
    /\ (IsSubmit /\ last.type = "LO") =>
          \A u \in UidsIn(OppQ(Pre, last.side)) :
              ( /\ Pre.orders[u].type = "LO"
                /\ Pre.orders[u].quantity > last.quantity
                /\ ~PriceGate(Pre.orders[u], Incoming) ) =>
                  /\ UnitsFrom(last.trades, u) = 0
                  /\ Count(OppQ(Now, last.side), u) = Count(OppQ(Pre, last.side), u)
                  /\ orders[u] = Pre.orders[u]
    /\ C11_Case =>
          /\ last.result = 0
          /\ last.trades = <<>>
          /\ last.full_execution_orders = <<OppQ(Pre, last.side)[1][2]>>
          /\ OppQ(Now, last.side) = OppQ(Pre, last.side)
          /\ UidsIn(OwnQ(Now, last.side)) = {last.uid}
          /\ Len(OwnQ(Now, last.side)) = 1
          /\ orders[last.uid] = Incoming

\* a Limit Sell met a single resting Limit Buy of greater quantity at its own price
C11_Witness ==
    /\ C11_Case
    /\ last.side = "S"
    /\ Pre.orders[Pre.buy[1][2]].price = last.price

(* C12: cancel exclusivity. cancel_order(X) for an X that rests in the book *)
(* removes the order X and nothing else: every other resting order is still *)
(* there with its price and quantity, and a second cancel of X changes      *)
(* nothing.                                                                 *)
C12_CancelRemovesExactlyOne ==
    (last.cmd = "CXL" /\ last.uid \in Referenced(Pre)) =>
        /\ last.outcome \notin Exceptions
        /\ last.uid \notin Referenced(Now)
        /\ \A u \in Referenced(Pre) \ {last.uid} :
              /\ Count(buy, u) = Count(Pre.buy, u)
              /\ Count(sell, u) = Count(Pre.sell, u)
              /\ orders[u] = Pre.orders[u]
        /\ cancel_order(Now, last.uid).book = Now

(* C13: cancelling an id that rests in neither queue leaves both queues     *)
(* unchanged, is not fatal, and its outcome differs from that of a cancel   *)
(* that removed an order.                                                   *)
C13_CancelUnknownReportsNotFound ==
    (last.cmd = "CXL" /\ last.uid \notin Referenced(Pre)) =>
        /\ buy = Pre.buy
        /\ sell = Pre.sell
        /\ last.outcome \notin Exceptions
        /\ last.outcome # CancelFoundReturn


----------------------------------------------------------------------------
(* C15: after any sequence of Submit commands only Limit and GoodTillCancel *)
(* orders rest, so every resting order has a price; a Limit order that      *)
(* rests after its Submit was not filled (quantity left > 0), and a         *)
(* GoodTillCancel order that rests after its Submit rests with its          *)
(* remainder, which is > 0.                                                 *)

Rests(uid) == uid \in UidsIn(buy) \cup UidsIn(sell)

C15_OnlyLimitAndGTCRest ==
    /\ \A ref \in Referenced(Now) :
          /\ orders[ref].type \in {"LO", "GTC"}
          /\ orders[ref].price \in Prices
    /\ (IsSubmit /\ Rests(last.uid)) =>
          /\ last.remaining > 0
          /\ last.type = "GTC" => orders[last.uid].quantity = last.remaining

\* a Market, IOC or FOK order that traded and was left with a remainder, on
\* a book that is not empty afterwards
C15_Witness ==
    /\ IsSubmit
    /\ last.type \in {"MO", "IOC", "FOK"}
    /\ last.trades # <<>>
    /\ last.remaining > 0
    /\ Referenced(Now) # {}

----------------------------------------------------------------------------
(* C18: the dump of the book lists the resting buy orders by descending     *)
(* price and the resting sell orders by ascending price.                    *)

C18_DumpInPriceOrder ==
    /\ \A i, j \in DOMAIN DumpBuy(Now) :
          i < j => DumpBuy(Now)[i].price >= DumpBuy(Now)[j].price
    /\ \A i, j \in DOMAIN DumpSell(Now) :
          i < j => DumpSell(Now)[i].price <= DumpSell(Now)[j].price

----------------------------------------------------------------------------
(* C19: a consume step on a popped order that has more than the quantity r  *)
(* the incoming order still wants trades r at the order's price, reduces    *)
(* the order by exactly r (it is pushed back), and leaves nothing wanted:   *)
(* it is the last step of the Submit, the order is not popped again.        *)

C19_ResidueStepEndsLoop ==
    IsSubmit =>
        \A i \in DOMAIN last.trades :
            LET t == last.trades[i]
            IN  t.had > t.wanted =>
                    /\ t.units = t.wanted
                    /\ t.left = 0
                    /\ i = Len(last.trades)
                    /\ UnitsFrom(last.trades, t.uid) = t.wanted

----------------------------------------------------------------------------
(* C20: price gate. For an incoming Limit, IOC, FOK or GTC order no resting *)
(* order whose price violates the incoming limit is consumed or reduced;    *)
(* the first popped order that violates the limit ends the loop (the        *)
(* incoming order is left with quantity > 0) and is in the book, unchanged, *)
(* when execute returns.                                                    *)

Gated == {"LO", "IOC", "FOK", "GTC"}

\* a resting order whose price is beyond the incoming order's limit: a sell
\* dearer than a buy's limit, a buy cheaper than a sell's limit
ViolatesLimit(resting, incoming) ==
    \/ incoming.side = "B" /\ resting.price > incoming.price
    \/ incoming.side = "S" /\ resting.price < incoming.price

C20_PriceGate ==
    (IsSubmit /\ last.type \in Gated) =>
        /\ \A i \in DOMAIN last.trades :
              ~ViolatesLimit(Pre.orders[last.trades[i].uid], Incoming)
        /\ \A uid \in UidsIn(OppQ(Pre, last.side)) :
              ViolatesLimit(Pre.orders[uid], Incoming) =>
                  /\ Count(OppQ(Now, last.side), uid) = Count(OppQ(Pre, last.side), uid)
                  /\ orders[uid] = Pre.orders[uid]
        /\ \A i \in DOMAIN last.gated :
              /\ ViolatesLimit(Pre.orders[last.gated[i]], Incoming)
              /\ last.gated[i] \in UidsIn(OppQ(Now, last.side))
              /\ orders[last.gated[i]] = Pre.orders[last.gated[i]]
              /\ last.remaining > 0

\* an order traded with one resting order and was stopped by the next one
C20_Witness ==
    /\ IsSubmit
    /\ last.type \in Gated
    /\ last.trades # <<>>
    /\ last.gated # <<>>

----------------------------------------------------------------------------
(* Claims about the engine's commands (EngineSpec) *)

\* the id of the last SUB line is the uid of an order resting before it
IdResting(b, id) == \E ref \in Referenced(b) : b.orders[ref].uid = id

\* a SUB line the specification calls malformed: unknown kind, a priced kind
\* without a price, a quantity that is not positive, an id already in use
Malformed ==
    /\ last.cmd = "SUB"
    /\ \/ last.type \notin Kinds
       \/ last.type # "MO" /\ last.price = NoPrice
       \/ last.quantity <= 0
       \/ IdResting(Pre, last.uid)

WellFormed == last.cmd = "SUB" /\ ~Malformed

BookUnchanged == buy = Pre.buy /\ sell = Pre.sell

\* C14: a malformed submission (unknown kind, priced kind without price,
\* quantity not positive, id already submitted) is rejected with an error and
\* leaves the book unchanged.
C14_MalformedRejected ==
    Malformed => (last.outcome \in Exceptions /\ BookUnchanged)

\* C16: process_order builds the order of the submitted kind and runs that
\* kind's matching policy: a well-formed SUB of any of the five kinds returns
\* what the kind's execute returns and leaves the book that execute leaves.
C16_SubmitRunsKindPolicy ==
    WellFormed =>
        LET self == Len(Pre.orders) + 1
            order == [action |-> "SUB", uid |-> last.uid, type |-> last.type,
                      side |-> last.side, quantity |-> last.quantity,
                      price |-> last.price]
            ex == execute([Pre EXCEPT !.orders = Append(@, order)], self)
        IN  /\ last.outcome = "returned"
            /\ last.result = ex.total_sale
            /\ buy = ex.buy
            /\ sell = ex.sell

\* C17: process_order answers a CXL line with the outcome of
\* order_book.cancel_order for that id, and that outcome is not an exception.
C17_CancelRoutedToBook ==
    last.cmd = "CXL" =>
        /\ last.outcome \notin Exceptions
        /\ last.outcome = cancel_order(Pre, last.uid).outcome

----------------------------------------------------------------------------
(* C21: after every OrderBook.cancel_order call, whether the id rests or    *)
(* not, the buy array and the sell array are heap-ordered: the key of every *)
(* parent is at most the key of its children, so the entry at the front is  *)
(* a best-priced one.                                                       *)

\* heap[k] for 0-based k is heap[k + 1]; the parent of position k is (k - 1) \div 2
HeapOrdered(heap) ==
    \A k \in 1..(Len(heap) - 1) : heap[((k - 1) \div 2) + 1][1] <= heap[k + 1][1]

----------------------------------------------------------------------------
(* C22: every execute call on a book whose resting orders all have a        *)
(* positive quantity returns without raising: every pop is made on a        *)
(* non-empty queue, no price compared is None, each iteration of the loop   *)
(* strictly decreases (size of the opposing queue + quantity still wanted), *)
(* and the call ends as a full fill, a partial fill or a rollback.          *)

PositiveBook(b) == \A ref \in Referenced(b) : b.orders[ref].quantity > 0

StepMeasure(i) == last.steps[i].opp + last.steps[i].quantity

\* iteration i runs from the i-th observation to the next one
Iterations == 1..(Len(last.steps) - 1)

\* the iteration in which the price test of an IOC or GTC order ended the loop
PushedBackAtGate(i) ==
    /\ last.type \in {"IOC", "GTC"}
    /\ last.gated # <<>>
    /\ i = Len(last.steps) - 1

FullFill == last.remaining = 0
Rollback == last.remaining > 0 /\ last.type \in {"LO", "FOK"} /\ last.result = 0
PartialFill ==
    /\ last.remaining > 0
    /\ last.type \in {"MO", "IOC", "GTC"}
    /\ last.result = TradeNotional(last.trades)

ReturnsNormally ==
    /\ last.outcome = "returned"
    /\ \A ref \in Referenced(Now) : orders[ref].price # NoPrice
    /\ \A i \in Iterations : last.steps[i].opp >= 1 /\ last.steps[i].quantity > 0
    /\ FullFill \/ PartialFill \/ Rollback

\* the claim as stated: every iteration decreases the measure
C22_EveryIterationDecreases ==
    (IsSubmit /\ PositiveBook(Pre)) =>
        /\ ReturnsNormally
        /\ \A i \in Iterations : StepMeasure(i + 1) < StepMeasure(i)

\* C22 as amended: every iteration decreases the measure, except the one in
\* which an IOC or GTC order pops an order beyond its limit, pushes it back
\* and leaves the loop; that iteration leaves the measure as it was.
C22_IterationsDecreaseUntilBreak ==
    (IsSubmit /\ PositiveBook(Pre)) =>
        /\ ReturnsNormally
        /\ \A i \in Iterations :
              IF PushedBackAtGate(i)
              THEN StepMeasure(i + 1) = StepMeasure(i)
              ELSE StepMeasure(i + 1) < StepMeasure(i)

\* a GTC or IOC order traded, then met an order beyond its limit
C22_Witness ==
    /\ IsSubmit
    /\ PositiveBook(Pre)
    /\ last.trades # <<>>
    /\ \E i \in Iterations : PushedBackAtGate(i)

----------------------------------------------------------------------------
(* C23: a Submit removes from the opposing queue at most the incoming       *)
(* order's quantity (orders consumed in full plus reductions), and returns  *)
(* at most that quantity times the highest price it traded at.              *)

TradedPrices == {last.trades[i].price : i \in DOMAIN last.trades}

C23_TakesAtMostQuantity ==
    IsSubmit =>
        /\ TakenFromOpp <= last.quantity
        /\ \A top \in TradedPrices :
              (\A p \in TradedPrices : p <= top) => last.result <= last.quantity * top

----------------------------------------------------------------------------
(* C24: a Submit leaves the resting orders of the incoming order's own side *)
(* as they were: each is still there, as often, with the same fields; the   *)
(* only entry that can be new on that side is the incoming order itself,    *)
(* once, and only when it is a Limit or GoodTillCancel order.               *)

C24_OwnSideUntouched ==
    IsSubmit =>
        LET before == OwnQ(Pre, last.side)
            after == OwnQ(Now, last.side)
        IN  /\ \A uid \in UidsIn(before) :
                  /\ Count(after, uid) = Count(before, uid)
                  /\ orders[uid] = Pre.orders[uid]
            /\ UidsIn(after) \subseteq UidsIn(before) \cup {last.uid}
            /\ Count(after, last.uid) <= 1
            /\ Count(after, last.uid) = 1 => last.type \in {"LO", "GTC"}

\* an order traded and came to rest next to an order of its own side
C24_Witness ==
    /\ IsSubmit
    /\ OwnQ(Pre, last.side) # <<>>
    /\ last.trades # <<>>
    /\ Count(OwnQ(Now, last.side), last.uid) = 1

----------------------------------------------------------------------------
(* C25: after any sequence of get_instance() and MatchingEngine() calls at  *)
(* most one engine, and so one order book, has been created; every          *)
(* get_instance call returns that one instance; a constructor call made     *)
(* while an instance exists raises SingletonConstructorCallError and leaves *)
(* the stored instance and its book as they were.                           *)

C25_Singleton ==
    /\ engine.created <= 1
    /\ engine.books <= 1
    /\ engine.instance \in {NoInstance, 1}
    /\ engine.op = "get_instance" =>
          /\ engine.raised = "None"
          /\ engine.returned = 1
          /\ engine.returned = engine.instance
    /\ (engine.op = "MatchingEngine" /\ engine.pre.instance # NoInstance) =>
          /\ engine.raised = "SingletonConstructorCallError"
          /\ engine.instance = engine.pre.instance
          /\ buy = engine.pre.buy
          /\ sell = engine.pre.sell

\* the constructor was called while the instance held a book with an order
C25_Witness ==
    /\ engine.op = "MatchingEngine"
    /\ engine.pre.instance # NoInstance
    /\ engine.pre.buy # <<>>
    /\ engine.raised = "SingletonConstructorCallError"
====
